---------------------------- MODULE Spec2Model ----------------------------
(***************************************************************************)
(* A model of the two scripts of the benchmark automation:                 *)
(*                                                                         *)
(*   scripts/daily_benchmark_bot.py   the run gate (main and its helpers)  *)
(*   scripts/compare_benchmarks.py    the comparator (compare and helpers) *)
(*                                                                         *)
(* Text (a Python str) is a sequence of tokens.  A token is a whitespace   *)
(* character or an opaque piece of non-blank text (a commit hash, a path   *)
(* component, a "/").  None is Python's None.                              *)
(***************************************************************************)
EXTENDS Integers, Sequences, FiniteSets, TLC

VARIABLES
    \* ---- the git repository and the file system (the gate's environment)
    trees,          \* trees[n]: the tree of commit n, a function path -> blob
    head,           \* the commit HEAD points at
    available,      \* the commits whose objects the local history holds
    markerFile,     \* LAST_RUN_FILE: [exists |-> BOOLEAN, content |-> text]
    \* ---- one invocation of daily_benchmark_bot.main
    pc,             \* where main is
    argv,           \* sys.argv
    current_commit, \* main's local
    last_commit,    \* main's local
    should_run,     \* main's local
    exit_code,      \* the exit status of the invocation, NotExited while
                    \* it runs
    \* ---- what the invocation did (history of the current invocation)
    outcome,        \* how the invocation ended
    decision,       \* "none", "run", "skip": the gate's decision
    lookup,         \* "none", "ok", "failed": what git diff did
    lookupCalls,    \* number of git diff calls
    runnerCalls,    \* number of times BENCHMARK_SCRIPT was started
    runnerArgs,     \* the arguments of the last start
    runnerExit,     \* the runner's exit status, NotExited before it exited
    markerWrites,   \* number of writes of LAST_RUN_FILE
    marker0,        \* LAST_RUN_FILE as it was when the invocation started
    prevFailedAt,   \* current_commit of the previous invocation if the
                    \* runner failed in it, else None
    prevLookup,     \* lookup of that previous invocation
    lastSuccess,    \* current_commit of the most recent invocation that
                    \* ended after a successful run, None if there is none
    \* ---- one call of compare_benchmarks.compare
    old_file,       \* the document at sys.argv[1]
    new_file,       \* the document at sys.argv[2]
    cpc,            \* where compare is
    old_data,       \* compare's local: dict key -> entry
    new_data,       \* compare's local
    sorted_keys,    \* the keys the loop has still to visit
    lines,          \* the rows appended so far
    output_file,    \* [exists |-> BOOLEAN, rows |-> the rows written]
    raised,         \* the exception compare ended with, "" if none
    \* ---- one application of a function to arguments
    fn_args,        \* the arguments
    fn_done,        \* whether the function has been applied
    fn_result       \* its result, once applied

gateVars == <<trees, head, available, markerFile, pc, argv, current_commit,
              last_commit, should_run, exit_code, outcome, decision, lookup,
              lookupCalls, runnerCalls, runnerArgs, runnerExit, markerWrites,
              marker0, prevFailedAt, prevLookup, lastSuccess>>

cmpVars == <<old_file, new_file, cpc, old_data, new_data, sorted_keys, lines,
             output_file, raised>>

pureVars == <<fn_args, fn_done, fn_result>>

vars == <<gateVars, cmpVars, pureVars>>

---------------------------------------------------------------------------
\* Bounds of the model.

\* the number of commits the repository may grow to
MaxRevs == 2

---------------------------------------------------------------------------
\* Python values and str helpers.

\* Python's None, told from every str: no text holds this token
None == <<"<None>">>

IsSpace(c) == c \in {" ", "\n", "\t", "\r"}

SetMin(S) == CHOOSE x \in S : \A y \in S : x <= y

SetMax(S) == CHOOSE x \in S : \A y \in S : x >= y

\* str.strip(): drop the leading and trailing whitespace
Strip(s) ==
    LET idx == {i \in 1..Len(s) : ~IsSpace(s[i])}
    IN  IF idx = {} THEN <<>> ELSE SubSeq(s, SetMin(idx), SetMax(idx))

\* Python truthiness of a str or None: `not x` is Falsy(x)
Falsy(x) == x = None \/ x = <<>>

---------------------------------------------------------------------------
\* The git repository.

\* the tracked paths, in the order git lists them
PathList == << <<"lib", "/", "scripts", "/", "y">>,
               <<"scripts", "/", "x">>,
               <<"src", "/", "a">> >>

Paths == {PathList[i] : i \in 1..Len(PathList)}

Blobs == 0..1

Trees == [Paths -> Blobs]

\* the hash git prints for commit n
Hash(n) == <<ToString(n)>>

Commits == 1..Len(trees)

\* the commit a revision argument names in the local history, 0 if none
Resolve(rev) ==
    IF \E n \in available : Hash(n) = rev
    THEN CHOOSE n \in available : Hash(n) = rev
    ELSE 0

IsPrefix(p, s) == Len(p) <= Len(s) /\ SubSeq(s, 1, Len(p)) = p

\* the pathspec ":!scripts/" of the diff command, relative to REPO_ROOT
ExcludePrefix == <<"scripts", "/">>

\* mutant of Excluded: every directory named scripts is excluded, not only
\* the one at the root
Excluded_AnyScriptsDir(p) ==
    \E i \in 1..(Len(p) - 1) : SubSeq(p, i, i + 1) = ExcludePrefix

Excluded(p) == IsPrefix(ExcludePrefix, p)

RECURSIVE JoinLines(_)
\* the lines of a command's stdout, each ended by a newline
JoinLines(ls) ==
    IF ls = <<>> THEN <<>> ELSE Head(ls) \o <<"\n">> \o JoinLines(Tail(ls))

\* git diff --name-only a b -- . :!scripts/
\* [rc |-> exit status, stdout |-> text]
GitDiffNameOnly(a, b) ==
    IF Resolve(a) = 0 \/ Resolve(b) = 0
    THEN [rc |-> 128, stdout |-> <<>>]
    ELSE LET ta == trees[Resolve(a)]
             tb == trees[Resolve(b)]
             Changed(p) == ta[p] /= tb[p] /\ ~Excluded(p)
         IN  [rc |-> 0, stdout |-> JoinLines(SelectSeq(PathList, Changed))]

\* git rev-parse HEAD; it fails where there is no repository to ask
GitRevParseHead(ok) ==
    IF ok THEN [rc |-> 0, stdout |-> Hash(head) \o <<"\n">>]
    ELSE [rc |-> 128, stdout |-> <<>>]

\* a new commit arrives: HEAD moves to it
Commit ==
    /\ Len(trees) < MaxRevs
    /\ \E t \in Trees :
        /\ trees' = Append(trees, t)
        /\ head' = Len(trees) + 1
        /\ available' = available \cup {Len(trees) + 1}
    /\ UNCHANGED lastSuccess
    /\ UNCHANGED cmpVars
    /\ UNCHANGED pureVars
    /\ UNCHANGED <<markerFile, pc, argv, current_commit, last_commit,
                   should_run, exit_code, outcome, decision, lookup,
                   lookupCalls, runnerCalls, runnerArgs, runnerExit,
                   markerWrites, marker0, prevFailedAt, prevLookup>>

\* the local history changes: a shallow clone or a forced push drops
\* commits, a fetch brings them back; HEAD is always there
HistoryChange ==
    /\ \E S \in SUBSET Commits :
        /\ head \in S
        /\ S /= available
        /\ available' = S
    /\ UNCHANGED lastSuccess
    /\ UNCHANGED cmpVars
    /\ UNCHANGED pureVars
    /\ UNCHANGED <<trees, head, markerFile, pc, argv, current_commit,
                   last_commit, should_run, exit_code, outcome, decision,
                   lookup, lookupCalls, runnerCalls, runnerArgs, runnerExit,
                   markerWrites, marker0, prevFailedAt, prevLookup>>

---------------------------------------------------------------------------
\* daily_benchmark_bot.py

\* proc.returncode / the exit status of a process that has not exited
NotExited == -1

\* the command lines the bot is started with: no filter, or a filter
Argvs == { <<"bot">>, <<"bot", "Core*">> }

\* run_command: the stripped stdout, or CalledProcessError re-raised
run_command(result) ==
    IF result.rc = 0
    THEN [raised |-> FALSE, value |-> Strip(result.stdout)]
    ELSE [raised |-> TRUE, value |-> <<>>]

\* get_current_commit
get_current_commit(ok) == run_command(GitRevParseHead(ok))

\* get_last_run_commit
\* mutant of get_last_run_commit: the content is returned as it was read
get_last_run_commit_NoStrip ==
    IF markerFile.exists THEN markerFile.content ELSE None

get_last_run_commit ==
    IF markerFile.exists THEN Strip(markerFile.content) ELSE None

\* mutant of check_for_changes: a failed lookup counts as "no changes"
check_for_changes_FailClosed(last, current) ==
    LET r == run_command(GitDiffNameOnly(last, current))
    IN  IF r.raised
        THEN [changes |-> FALSE, lookup |-> "failed"]
        ELSE [changes |-> Len(r.value) > 0, lookup |-> "ok"]

\* check_for_changes: [changes |-> the returned bool, lookup |-> ...]
check_for_changes(last, current) ==
    LET r == run_command(GitDiffNameOnly(last, current))
    IN  IF r.raised
        THEN [changes |-> TRUE, lookup |-> "failed"]
        ELSE [changes |-> Len(r.value) > 0, lookup |-> "ok"]

\* the invocation ends: by return, by sys.exit or by an exception
Exit(how, status) ==
    /\ pc' = "idle"
    /\ outcome' = how
    /\ exit_code' = status
    /\ lastSuccess' = IF how = "ran" THEN current_commit ELSE lastSuccess

\* the scheduler starts the bot
Start ==
    /\ pc = "idle"
    /\ pc' = "get_current"
    /\ \E a \in Argvs : argv' = a
    /\ current_commit' = None
    /\ last_commit' = None
    /\ should_run' = FALSE
    /\ exit_code' = NotExited
    /\ outcome' = "none"
    /\ decision' = "none"
    /\ lookup' = "none"
    /\ lookupCalls' = 0
    /\ runnerCalls' = 0
    /\ runnerArgs' = <<>>
    /\ runnerExit' = NotExited
    /\ markerWrites' = 0
    /\ marker0' = markerFile
    /\ prevFailedAt' = IF outcome = "runner_failed" THEN current_commit ELSE None
    /\ prevLookup' = IF outcome = "runner_failed" THEN lookup ELSE "none"
    /\ UNCHANGED lastSuccess
    /\ UNCHANGED cmpVars
    /\ UNCHANGED pureVars
    /\ UNCHANGED <<trees, head, available, markerFile>>

\* main, line 77
GetCurrentCommit ==
    /\ pc = "get_current"
    /\ \E ok \in BOOLEAN :
        LET r == get_current_commit(ok)
        IN  IF r.raised
            THEN /\ Exit("crashed", 1)
                 /\ UNCHANGED current_commit
            ELSE /\ current_commit' = r.value
                 /\ pc' = "get_last"
                 /\ UNCHANGED <<outcome, exit_code, lastSuccess>>
    /\ UNCHANGED cmpVars
    /\ UNCHANGED pureVars
    /\ UNCHANGED <<trees, head, available, markerFile, argv, last_commit,
                   should_run, decision, lookup, lookupCalls, runnerCalls,
                   runnerArgs, runnerExit, markerWrites, marker0,
                   prevFailedAt, prevLookup>>

\* main, line 80
GetLastRunCommit ==
    /\ pc = "get_last"
    /\ last_commit' = get_last_run_commit
    /\ pc' = "decide"
    /\ UNCHANGED lastSuccess
    /\ UNCHANGED cmpVars
    /\ UNCHANGED pureVars
    /\ UNCHANGED <<trees, head, available, markerFile, argv, current_commit,
                   should_run, exit_code, outcome, decision, lookup,
                   lookupCalls, runnerCalls, runnerArgs, runnerExit,
                   markerWrites, marker0, prevFailedAt, prevLookup>>

\* mutant of DecideFirstRun: the first branch leaves should_run False
DecideFirstRun_Skip ==
    /\ pc = "decide"
    /\ Falsy(last_commit)
    /\ should_run' = FALSE
    /\ decision' = "skip"
    /\ pc' = "dispatch"
    /\ UNCHANGED lastSuccess
    /\ UNCHANGED cmpVars
    /\ UNCHANGED pureVars
    /\ UNCHANGED <<trees, head, available, markerFile, argv, current_commit,
                   last_commit, exit_code, outcome, lookup, lookupCalls,
                   runnerCalls, runnerArgs, runnerExit, markerWrites, marker0,
                   prevFailedAt, prevLookup>>

\* main, lines 84-86: no previous run recorded
DecideFirstRun ==
    /\ pc = "decide"
    /\ Falsy(last_commit)
    /\ should_run' = TRUE
    /\ decision' = "run"
    /\ pc' = "dispatch"
    /\ UNCHANGED lastSuccess
    /\ UNCHANGED cmpVars
    /\ UNCHANGED pureVars
    /\ UNCHANGED <<trees, head, available, markerFile, argv, current_commit,
                   last_commit, exit_code, outcome, lookup, lookupCalls,
                   runnerCalls, runnerArgs, runnerExit, markerWrites, marker0,
                   prevFailedAt, prevLookup>>

\* mutant of DecideNoNewCommits: the equality shortcut is missing, git is
\* asked even when the marker is the current revision
DecideNoNewCommits_Lookup ==
    /\ pc = "decide"
    /\ ~Falsy(last_commit)
    /\ last_commit = current_commit
    /\ LET c == check_for_changes(last_commit, current_commit)
       IN  /\ should_run' = c.changes
           /\ decision' = IF c.changes THEN "run" ELSE "skip"
           /\ lookup' = c.lookup
    /\ lookupCalls' = lookupCalls + 1
    /\ pc' = "dispatch"
    /\ UNCHANGED lastSuccess
    /\ UNCHANGED cmpVars
    /\ UNCHANGED pureVars
    /\ UNCHANGED <<trees, head, available, markerFile, argv, current_commit,
                   last_commit, exit_code, outcome, runnerCalls, runnerArgs,
                   runnerExit, markerWrites, marker0, prevFailedAt,
                   prevLookup>>

\* main, lines 87-89: no new commits since the last run
DecideNoNewCommits ==
    /\ pc = "decide"
    /\ ~Falsy(last_commit)
    /\ last_commit = current_commit
    /\ should_run' = FALSE
    /\ decision' = "skip"
    /\ pc' = "dispatch"
    /\ UNCHANGED lastSuccess
    /\ UNCHANGED cmpVars
    /\ UNCHANGED pureVars
    /\ UNCHANGED <<trees, head, available, markerFile, argv, current_commit,
                   last_commit, exit_code, outcome, lookup, lookupCalls,
                   runnerCalls, runnerArgs, runnerExit, markerWrites, marker0,
                   prevFailedAt, prevLookup>>

\* main, lines 90-97: ask git what changed
DecideByChanges ==
    /\ pc = "decide"
    /\ ~Falsy(last_commit)
    /\ last_commit /= current_commit
    /\ LET c == check_for_changes(last_commit, current_commit)
       IN  /\ should_run' = c.changes
           /\ decision' = IF c.changes THEN "run" ELSE "skip"
           /\ lookup' = c.lookup
    /\ lookupCalls' = lookupCalls + 1
    /\ pc' = "dispatch"
    /\ UNCHANGED lastSuccess
    /\ UNCHANGED cmpVars
    /\ UNCHANGED pureVars
    /\ UNCHANGED <<trees, head, available, markerFile, argv, current_commit,
                   last_commit, exit_code, outcome, runnerCalls, runnerArgs,
                   runnerExit, markerWrites, marker0, prevFailedAt,
                   prevLookup>>

\* mutant of SkipBenchmarks: a skip advances the marker to the current
\* revision
SkipBenchmarks_Advance ==
    /\ pc = "dispatch"
    /\ ~should_run
    /\ markerFile' = [exists |-> TRUE, content |-> current_commit]
    /\ markerWrites' = markerWrites + 1
    /\ Exit("skipped", 0)
    /\ UNCHANGED cmpVars
    /\ UNCHANGED pureVars
    /\ UNCHANGED <<trees, head, available, argv, current_commit, last_commit,
                   should_run, decision, lookup, lookupCalls, runnerCalls,
                   runnerArgs, runnerExit, marker0, prevFailedAt, prevLookup>>

\* main, lines 104-105
SkipBenchmarks ==
    /\ pc = "dispatch"
    /\ ~should_run
    /\ Exit("skipped", 0)
    /\ UNCHANGED cmpVars
    /\ UNCHANGED pureVars
    /\ UNCHANGED <<trees, head, available, markerFile, argv, current_commit,
                   last_commit, should_run, decision, lookup, lookupCalls,
                   runnerCalls, runnerArgs, runnerExit, markerWrites, marker0,
                   prevFailedAt, prevLookup>>

\* mutant of RunBenchmarks: the marker is written before the runner is
\* started (update_last_run_commit and run_benchmarks swapped)
RunBenchmarks_MarkerFirst ==
    /\ pc = "dispatch"
    /\ should_run
    /\ markerFile' = [exists |-> TRUE, content |-> current_commit]
    /\ markerWrites' = markerWrites + 1
    /\ \E chmodOk \in BOOLEAN :
        IF chmodOk
        THEN /\ pc' = "running"
             /\ runnerCalls' = runnerCalls + 1
             /\ runnerArgs' = <<IF Len(argv) > 1 THEN argv[2] ELSE "*",
                                "--job", "short">>
             /\ UNCHANGED <<outcome, exit_code, lastSuccess>>
        ELSE /\ Exit("crashed", 1)
             /\ UNCHANGED <<runnerCalls, runnerArgs>>
    /\ UNCHANGED cmpVars
    /\ UNCHANGED pureVars
    /\ UNCHANGED <<trees, head, available, argv, current_commit,
                   last_commit, should_run, decision, lookup, lookupCalls,
                   runnerExit, marker0, prevFailedAt, prevLookup>>

\* main, lines 99-102, and run_benchmarks up to the start of the runner:
\* chmod (check=True, so its failure raises), then the runner is started
RunBenchmarks ==
    /\ pc = "dispatch"
    /\ should_run
    /\ \E chmodOk \in BOOLEAN :
        IF chmodOk
        THEN /\ pc' = "running"
             /\ runnerCalls' = runnerCalls + 1
             /\ runnerArgs' = <<IF Len(argv) > 1 THEN argv[2] ELSE "*",
                                "--job", "short">>
             /\ UNCHANGED <<outcome, exit_code, lastSuccess>>
        ELSE /\ Exit("crashed", 1)
             /\ UNCHANGED <<runnerCalls, runnerArgs>>
    /\ UNCHANGED cmpVars
    /\ UNCHANGED pureVars
    /\ UNCHANGED <<trees, head, available, markerFile, argv, current_commit,
                   last_commit, should_run, decision, lookup, lookupCalls,
                   runnerExit, markerWrites, marker0, prevFailedAt,
                   prevLookup>>

\* mutant of RunnerExit: the marker is persisted when the runner has
\* exited, before its return code is looked at
RunnerExit_PersistFirst ==
    /\ pc = "running"
    /\ markerFile' = [exists |-> TRUE, content |-> current_commit]
    /\ markerWrites' = markerWrites + 1
    /\ \E rc \in {0, 1} :
        /\ runnerExit' = rc
        /\ IF rc /= 0
           THEN Exit("runner_failed", 1)
           ELSE /\ pc' = "update"
                /\ UNCHANGED <<outcome, exit_code, lastSuccess>>
    /\ UNCHANGED cmpVars
    /\ UNCHANGED pureVars
    /\ UNCHANGED <<trees, head, available, argv, current_commit,
                   last_commit, should_run, decision, lookup, lookupCalls,
                   runnerCalls, runnerArgs, marker0, prevFailedAt,
                   prevLookup>>

\* run_benchmarks, lines 61-67: the runner exits with status rc
RunnerExit ==
    /\ pc = "running"
    /\ \E rc \in {0, 1} :
        /\ runnerExit' = rc
        /\ IF rc /= 0
           THEN Exit("runner_failed", 1)
           ELSE /\ pc' = "update"
                /\ UNCHANGED <<outcome, exit_code, lastSuccess>>
    /\ UNCHANGED cmpVars
    /\ UNCHANGED pureVars
    /\ UNCHANGED <<trees, head, available, markerFile, argv, current_commit,
                   last_commit, should_run, decision, lookup, lookupCalls,
                   runnerCalls, runnerArgs, markerWrites, marker0,
                   prevFailedAt, prevLookup>>

\* mutant of UpdateLastRunCommit: HEAD is asked again at the time of the
\* write, and its output is written as git printed it
UpdateLastRunCommit_Reread ==
    /\ pc = "update"
    /\ markerFile' = [exists |-> TRUE, content |-> GitRevParseHead(TRUE).stdout]
    /\ markerWrites' = markerWrites + 1
    /\ Exit("ran", 0)
    /\ UNCHANGED cmpVars
    /\ UNCHANGED pureVars
    /\ UNCHANGED <<trees, head, available, argv, current_commit, last_commit,
                   should_run, decision, lookup, lookupCalls, runnerCalls,
                   runnerArgs, runnerExit, marker0, prevFailedAt, prevLookup>>

\* update_last_run_commit(current_commit), then main returns
UpdateLastRunCommit ==
    /\ pc = "update"
    /\ markerFile' = [exists |-> TRUE, content |-> current_commit]
    /\ markerWrites' = markerWrites + 1
    /\ Exit("ran", 0)
    /\ UNCHANGED cmpVars
    /\ UNCHANGED pureVars
    /\ UNCHANGED <<trees, head, available, argv, current_commit, last_commit,
                   should_run, decision, lookup, lookupCalls, runnerCalls,
                   runnerArgs, runnerExit, marker0, prevFailedAt, prevLookup>>

\* the process is killed from outside (there is no cancellation support:
\* the caller's process lifetime is the boundary)
Interrupt ==
    /\ pc /= "idle"
    /\ Exit("interrupted", 137)
    /\ UNCHANGED cmpVars
    /\ UNCHANGED pureVars
    /\ UNCHANGED <<trees, head, available, markerFile, argv, current_commit,
                   last_commit, should_run, decision, lookup, lookupCalls,
                   runnerCalls, runnerArgs, runnerExit, markerWrites, marker0,
                   prevFailedAt, prevLookup>>

\* the gate before its first invocation
GateInit ==
    /\ trees = << [p \in Paths |-> 0] >>
    /\ head = 1
    /\ available = {1}
    /\ markerFile = [exists |-> FALSE, content |-> <<>>]
    /\ pc = "idle"
    /\ argv = <<"bot">>
    /\ current_commit = None
    /\ last_commit = None
    /\ should_run = FALSE
    /\ exit_code = NotExited
    /\ outcome = "none"
    /\ decision = "none"
    /\ lookup = "none"
    /\ lookupCalls = 0
    /\ runnerCalls = 0
    /\ runnerArgs = <<>>
    /\ runnerExit = NotExited
    /\ markerWrites = 0
    /\ marker0 = [exists |-> FALSE, content |-> <<>>]
    /\ prevFailedAt = None
    /\ prevLookup = "none"
    /\ lastSuccess = None

Next ==
    \/ Commit
    \/ HistoryChange
    \/ Start
    \/ GetCurrentCommit
    \/ GetLastRunCommit
    \/ DecideFirstRun
    \/ DecideNoNewCommits
    \/ DecideByChanges
    \/ SkipBenchmarks
    \/ RunBenchmarks
    \/ RunnerExit
    \/ UpdateLastRunCommit
    \/ Interrupt

---------------------------------------------------------------------------
\* compare_benchmarks.py
\*
\* A results document is [kind, Benchmarks]: kind "missing" (open or
\* json.load fails), "no_benchmarks" (a JSON object without 'Benchmarks') or
\* "benchmarks", with Benchmarks the list of entries.  An entry is
\* [DisplayInfo, FullName, Statistics, Mean]: a name is a text or None where
\* the field is absent; Statistics is "absent", "no_mean" (a statistics
\* object without 'Mean') or "mean", and then Mean is the number.  A dict is
\* a function from its keys.  Mean durations are whole nanoseconds.

\* the number of entries a document holds at most
MaxEntries == 1

\* old_mean, new_mean where the code has None
NoMean == -1

\* the characters of the names, in code point order
CharOrder == <<".", "U", "a", "b", "c", "d", "k", "n", "o", "w", "y", "z">>

Ord(c) == CHOOSE i \in 1..Len(CharOrder) : CharOrder[i] = c

KeyA == <<"a", ".", "b", ".", "z">>

KeyC == <<"c", ".", "d", ".", "y">>

Unknown == <<"U", "n", "k", "n", "o", "w", "n">>

\* the names an entry may carry: both fields, FullName alone, neither
EntryNames == { <<KeyA, KeyC>>, <<None, KeyC>>, <<None, None>> }

MeanValues == {0, 100, 106}

Entries ==
    {[DisplayInfo |-> n[1], FullName |-> n[2], Statistics |-> "mean",
      Mean |-> m] : n \in EntryNames, m \in MeanValues}
    \cup
    {[DisplayInfo |-> n[1], FullName |-> n[2], Statistics |-> st,
      Mean |-> NoMean] : n \in EntryNames, st \in {"absent", "no_mean"}}

RECURSIVE SeqsUpTo(_, _)
\* the sequences over S of length at most n
SeqsUpTo(S, n) ==
    IF n = 0 THEN {<<>>}
    ELSE LET shorter == SeqsUpTo(S, n - 1)
         IN  shorter \cup {Append(q, x) : q \in shorter, x \in S}

\* an element of data['Benchmarks'] that is no JSON object (a string, a
\* number): b.get raises AttributeError
Malformed ==
    [DisplayInfo |-> None, FullName |-> None, Statistics |-> "not_an_object",
     Mean |-> NoMean]

\* the lists that end with a malformed element, after well-formed entries
FaultyLists ==
    {Append(bs, Malformed) :
        bs \in SeqsUpTo({[DisplayInfo |-> KeyA, FullName |-> KeyC,
                           Statistics |-> "mean", Mean |-> 100]},
                         MaxEntries)}

Documents ==
    {[kind |-> "missing", Benchmarks |-> <<>>],
     [kind |-> "no_benchmarks", Benchmarks |-> <<>>]}
    \cup {[kind |-> "benchmarks", Benchmarks |-> bs] :
            bs \in SeqsUpTo(Entries, MaxEntries) \cup FaultyLists}

\* b.get('DisplayInfo', b.get('FullName', 'Unknown'))
KeyOf(b) ==
    IF b.DisplayInfo /= None THEN b.DisplayInfo
    ELSE IF b.FullName /= None THEN b.FullName
    ELSE Unknown

RECURSIVE LoadEntries(_, _)
\* the loop of load_benchmarks: benchmarks[key] = b, the last one wins
\* [raised |-> whether b.get raised, benchmarks |-> the dict so far]
LoadEntries(bs, benchmarks) ==
    IF bs = <<>> THEN [raised |-> FALSE, benchmarks |-> benchmarks]
    ELSE LET b == Head(bs)
             added == [k \in DOMAIN benchmarks \cup {KeyOf(b)} |->
                         IF k = KeyOf(b) THEN b ELSE benchmarks[k]]
         IN  IF b = Malformed
             THEN [raised |-> TRUE, benchmarks |-> benchmarks]
             ELSE LoadEntries(Tail(bs), added)

\* mutant of load_benchmarks: the handler returns the entries read before
\* the fault (return benchmarks) and not an empty dict
load_benchmarks_KeepPartial(doc) ==
    IF doc.kind = "benchmarks"
    THEN LoadEntries(doc.Benchmarks, <<>>).benchmarks
    ELSE <<>>

\* load_benchmarks: open or json.load raising, a document without
\* 'Benchmarks', or the loop; `except Exception` returns {}
load_benchmarks(doc) ==
    IF doc.kind = "benchmarks"
    THEN LET r == LoadEntries(doc.Benchmarks, <<>>)
         IN  IF r.raised THEN <<>> ELSE r.benchmarks
    ELSE <<>>

RECURSIVE StrLess(_, _)
\* a < b of two str
StrLess(a, b) ==
    IF b = <<>> THEN FALSE
    ELSE IF a = <<>> THEN TRUE
    ELSE IF Head(a) /= Head(b) THEN Ord(Head(a)) < Ord(Head(b))
    ELSE StrLess(Tail(a), Tail(b))

RECURSIVE Sorted_Descending(_)
\* mutant of Sorted: the greatest first (reverse=True)
Sorted_Descending(S) ==
    IF S = {} THEN <<>>
    ELSE LET greatest == CHOOSE x \in S : \A y \in S \ {x} : StrLess(y, x)
         IN  <<greatest>> \o Sorted_Descending(S \ {greatest})

RECURSIVE Sorted(_)
\* sorted(list(S)) of a set of str
Sorted(S) ==
    IF S = {} THEN <<>>
    ELSE LET least == CHOOSE x \in S : \A y \in S \ {x} : StrLess(x, y)
         IN  <<least>> \o Sorted(S \ {least})

\* shorten_name
shorten_name(name) ==
    LET dots == {i \in 1..Len(name) : name[i] = "."}
    IN  IF Cardinality(dots) + 1 > 2
        THEN SubSeq(name, SetMax(dots) + 1, Len(name))
        ELSE name

\* f"{x:.2f}" of x = num / den, as text; ties go to the even digit
Fixed2(num, den) ==
    LET n == IF den % 100 = 0 THEN num ELSE num * 100
        d == IF den % 100 = 0 THEN den \div 100 ELSE den
        q == n \div d
        r == n % d
        h == IF 2 * r > d \/ (2 * r = d /\ q % 2 = 1) THEN q + 1 ELSE q
    IN  <<ToString(h \div 100), ".", ToString((h % 100) \div 10),
          ToString(h % 10)>>

\* mutant of format_time: milliseconds are the largest unit
format_time_NoSeconds(ns) ==
    IF ns < 1000 THEN Fixed2(ns, 1) \o <<" ", "ns">>
    ELSE IF ns < 1000000 THEN Fixed2(ns, 1000) \o <<" ", "us">>
    ELSE Fixed2(ns, 1000000) \o <<" ", "ms">>

\* format_time
format_time(ns) ==
    IF ns < 1000 THEN Fixed2(ns, 1) \o <<" ", "ns">>
    ELSE IF ns < 1000000 THEN Fixed2(ns, 1000) \o <<" ", "us">>
    ELSE IF ns < 1000000000 THEN Fixed2(ns, 1000000) \o <<" ", "ms">>
    ELSE Fixed2(ns, 1000000000) \o <<" ", "s">>

\* f"{x:+.1f}%" of x = num / den with den > 0
SignedFixed1(num, den) ==
    LET a == IF num < 0 THEN -num ELSE num
        q == (a * 10) \div den
        r == (a * 10) % den
        t == IF 2 * r > den \/ (2 * r = den /\ q % 2 = 1) THEN q + 1 ELSE q
    IN  <<IF num < 0 THEN "-" ELSE "+", ToString(t \div 10), ".",
          ToString(t % 10), "%">>

\* Python truthiness of a number or None
Truthy(x) == x /= NoMean /\ x /= 0

\* lines 65-66: b['Statistics']['Mean'] if b and 'Statistics' in b else None
\* [raised |-> KeyError?, value |-> the mean or NoMean]
MeanOf(data, key) ==
    IF key \notin DOMAIN data \/ data[key].Statistics = "absent"
    THEN [raised |-> FALSE, value |-> NoMean]
    ELSE IF data[key].Statistics = "no_mean"
    THEN [raised |-> TRUE, value |-> NoMean]
    ELSE [raised |-> FALSE, value |-> data[key].Mean]

\* mutant of Classify: the thresholds are inclusive (>= 5.0, <= -5.0)
Classify_Inclusive(old_mean, new_mean) ==
    IF Truthy(old_mean) /\ Truthy(new_mean)
    THEN IF old_mean = 0
         THEN [diff_str |-> <<"0", "%">>, status |-> "Same"]
         ELSE LET diff_ns == new_mean - old_mean
              IN  [diff_str |-> SignedFixed1(diff_ns * 100, old_mean),
                   status |-> IF diff_ns * 100 >= 5 * old_mean THEN "Slower"
                              ELSE IF diff_ns * 100 <= -5 * old_mean
                                   THEN "Faster"
                              ELSE "Same"]
    ELSE IF Truthy(old_mean) /\ ~Truthy(new_mean)
    THEN [diff_str |-> <<>>, status |-> "Removed"]
    ELSE IF ~Truthy(old_mean) /\ Truthy(new_mean)
    THEN [diff_str |-> <<>>, status |-> "New"]
    ELSE [diff_str |-> <<>>, status |-> ""]

\* lines 71-92: [diff_str, status] of a row
Classify(old_mean, new_mean) ==
    IF Truthy(old_mean) /\ Truthy(new_mean)
    THEN IF old_mean = 0
         THEN [diff_str |-> <<"0", "%">>, status |-> "Same"]
         ELSE LET diff_ns == new_mean - old_mean
              IN  [diff_str |-> SignedFixed1(diff_ns * 100, old_mean),
                   status |-> IF diff_ns * 100 > 5 * old_mean THEN "Slower"
                              ELSE IF diff_ns * 100 < -5 * old_mean
                                   THEN "Faster"
                              ELSE "Same"]
    ELSE IF Truthy(old_mean) /\ ~Truthy(new_mean)
    THEN [diff_str |-> <<>>, status |-> "Removed"]
    ELSE IF ~Truthy(old_mean) /\ Truthy(new_mean)
    THEN [diff_str |-> <<>>, status |-> "New"]
    ELSE [diff_str |-> <<>>, status |-> ""]

\* the row of a key: the fields of the line appended at line 94
Row(key, old_mean, new_mean) ==
    LET c == Classify(old_mean, new_mean)
    IN  [key |-> key,
         display_name |-> shorten_name(key),
         old_str |-> IF old_mean /= NoMean THEN format_time(old_mean)
                     ELSE <<"-">>,
         new_str |-> IF new_mean /= NoMean THEN format_time(new_mean)
                     ELSE <<"-">>,
         diff_str |-> c.diff_str,
         status |-> c.status]

\* compare, line 43
LoadOld ==
    /\ cpc = "load_old"
    /\ old_data' = load_benchmarks(old_file)
    /\ cpc' = "load_new"
    /\ UNCHANGED <<old_file, new_file, new_data, sorted_keys, lines,
                   output_file, raised>>
    /\ UNCHANGED gateVars
    /\ UNCHANGED pureVars

\* compare, line 44
LoadNew ==
    /\ cpc = "load_new"
    /\ new_data' = load_benchmarks(new_file)
    /\ cpc' = "check"
    /\ UNCHANGED <<old_file, new_file, old_data, sorted_keys, lines,
                   output_file, raised>>
    /\ UNCHANGED gateVars
    /\ UNCHANGED pureVars

\* compare, lines 46-48: nothing to compare, return without a report
NoData ==
    /\ cpc = "check"
    /\ DOMAIN old_data = {} /\ DOMAIN new_data = {}
    /\ cpc' = "done"
    /\ UNCHANGED <<old_file, new_file, old_data, new_data, sorted_keys,
                   lines, output_file, raised>>
    /\ UNCHANGED gateVars
    /\ UNCHANGED pureVars

\* mutant of SortKeys: the two key lists are concatenated, not united
SortKeys_Concatenated ==
    /\ cpc = "check"
    /\ ~(DOMAIN old_data = {} /\ DOMAIN new_data = {})
    /\ sorted_keys' = Sorted(DOMAIN old_data) \o Sorted(DOMAIN new_data)
    /\ cpc' = "loop"
    /\ UNCHANGED <<old_file, new_file, old_data, new_data, lines,
                   output_file, raised>>
    /\ UNCHANGED gateVars
    /\ UNCHANGED pureVars

\* compare, lines 50-57: the header, then the keys of both dicts, sorted
SortKeys ==
    /\ cpc = "check"
    /\ ~(DOMAIN old_data = {} /\ DOMAIN new_data = {})
    /\ sorted_keys' = Sorted(DOMAIN old_data \cup DOMAIN new_data)
    /\ cpc' = "loop"
    /\ UNCHANGED <<old_file, new_file, old_data, new_data, lines,
                   output_file, raised>>
    /\ UNCHANGED gateVars
    /\ UNCHANGED pureVars

\* compare, lines 59-94: one turn of the loop
AppendRow ==
    /\ cpc = "loop"
    /\ sorted_keys /= <<>>
    /\ LET key == Head(sorted_keys)
           old_mean == MeanOf(old_data, key)
           new_mean == MeanOf(new_data, key)
       IN  IF old_mean.raised \/ new_mean.raised
           THEN /\ raised' = "KeyError"
                /\ cpc' = "done"
                /\ UNCHANGED <<sorted_keys, lines>>
           ELSE /\ lines' = Append(lines,
                                   Row(key, old_mean.value, new_mean.value))
                /\ sorted_keys' = Tail(sorted_keys)
                /\ UNCHANGED <<cpc, raised>>
    /\ UNCHANGED <<old_file, new_file, old_data, new_data, output_file>>
    /\ UNCHANGED gateVars
    /\ UNCHANGED pureVars

\* compare, lines 96-101: the report is written
WriteReport ==
    /\ cpc = "loop"
    /\ sorted_keys = <<>>
    /\ output_file' = [exists |-> TRUE, rows |-> lines]
    /\ cpc' = "done"
    /\ UNCHANGED <<old_file, new_file, old_data, new_data, sorted_keys,
                   lines, raised>>
    /\ UNCHANGED gateVars
    /\ UNCHANGED pureVars

\* compare is not running
CompareOff ==
    /\ old_file = [kind |-> "missing", Benchmarks |-> <<>>]
    /\ new_file = [kind |-> "missing", Benchmarks |-> <<>>]
    /\ cpc = "off"
    /\ old_data = <<>>
    /\ new_data = <<>>
    /\ sorted_keys = <<>>
    /\ lines = <<>>
    /\ output_file = [exists |-> FALSE, rows |-> <<>>]
    /\ raised = ""

\* no function is being applied
PureOff ==
    /\ fn_args = <<>>
    /\ fn_done = FALSE
    /\ fn_result = <<>>

\* The run gate and its repository; compare is not running.
Init == GateInit /\ CompareOff /\ PureOff

Spec == Init /\ [][Next]_vars

\* The gate started on a marker file that exists and holds no revision: the
\* file was created empty, or holds nothing but the whitespace an editor or
\* `echo` leaves.
BlankContents == {<<>>, <<"\n">>, <<" ", "\n">>}

BlankMarkerInit ==
    /\ \E c \in BlankContents :
        /\ markerFile = [exists |-> TRUE, content |-> c]
        /\ marker0 = markerFile
    /\ trees = << [p \in Paths |-> 0] >>
    /\ head = 1
    /\ available = {1}
    /\ pc = "idle"
    /\ argv = <<"bot">>
    /\ current_commit = None
    /\ last_commit = None
    /\ should_run = FALSE
    /\ exit_code = NotExited
    /\ outcome = "none"
    /\ decision = "none"
    /\ lookup = "none"
    /\ lookupCalls = 0
    /\ runnerCalls = 0
    /\ runnerArgs = <<>>
    /\ runnerExit = NotExited
    /\ markerWrites = 0
    /\ prevFailedAt = None
    /\ prevLookup = "none"
    /\ lastSuccess = None
    /\ CompareOff
    /\ PureOff

BlankMarkerSpec == BlankMarkerInit /\ [][Next]_vars

\* One call of compare on a pair of documents; the gate is not running.
CompareInit ==
    /\ GateInit
    /\ PureOff
    /\ old_file \in Documents
    /\ new_file \in Documents
    /\ cpc = "load_old"
    /\ old_data = <<>>
    /\ new_data = <<>>
    /\ sorted_keys = <<>>
    /\ lines = <<>>
    /\ output_file = [exists |-> FALSE, rows |-> <<>>]
    /\ raised = ""

CompareNext ==
    \/ LoadOld
    \/ LoadNew
    \/ NoData
    \/ SortKeys
    \/ AppendRow
    \/ WriteReport

CompareSpec == CompareInit /\ [][CompareNext]_vars

\* the largest mean duration of RowSpec
MaxMean == 45

\* One turn of compare's loop (lines 59-94) on a pair of means, each a
\* number of nanoseconds or None: the row of one identity.
RowInit ==
    /\ GateInit
    /\ CompareOff
    /\ fn_args \in (0..MaxMean \cup {NoMean}) \X (0..MaxMean \cup {NoMean})
    /\ fn_done = FALSE
    /\ fn_result = <<>>

MakeRow ==
    /\ ~fn_done
    /\ fn_result' = Row(KeyA, fn_args[1], fn_args[2])
    /\ fn_done' = TRUE
    /\ UNCHANGED <<fn_args, gateVars, cmpVars>>

RowSpec == RowInit /\ [][MakeRow]_vars

\* format_time on its own: the durations within MaxNear nanoseconds of zero
\* and of the magnitudes at which format_time changes the unit.

\* how far from a magnitude the durations are taken
MaxNear == 8

\* the magnitudes format_time compares with
Magnitudes == {1000, 1000000, 1000000000}

Durations ==
    0..MaxNear
    \cup {m + o : m \in Magnitudes, o \in 0..MaxNear}
    \cup {m - o : m \in Magnitudes, o \in 1..MaxNear}

FormatInit ==
    /\ GateInit
    /\ CompareOff
    /\ fn_args \in {<<ns>> : ns \in Durations}
    /\ fn_done = FALSE
    /\ fn_result = <<>>

FormatTime ==
    /\ ~fn_done
    /\ fn_result' = format_time(fn_args[1])
    /\ fn_done' = TRUE
    /\ UNCHANGED <<fn_args, gateVars, cmpVars>>

FormatSpec == FormatInit /\ [][FormatTime]_vars

---------------------------------------------------------------------------
\* The run gate's claims.

\* the commit whose hash is h
CommitOf(h) == CHOOSE n \in Commits : Hash(n) = h

\* p lies in the directory scripts/ at the root of the repository
UnderScripts(p) == Len(p) > 2 /\ p[1] = "scripts" /\ p[2] = "/"

\* some path outside scripts/ differs between the commits with hashes a, b
RelevantChange(a, b) ==
    \E p \in Paths :
        /\ ~UnderScripts(p)
        /\ trees[CommitOf(a)][p] /= trees[CommitOf(b)][p]

\* C1: in every invocation the marker file is written only after the
\* benchmark runner has exited with status 0 in that invocation; an
\* invocation that is interrupted or crashes before the runner has exited
\* leaves the marker as it found it.
C1_MarkerOnlyAfterSuccess ==
    /\ [][(markerFile' /= markerFile \/ markerWrites' > markerWrites)
            => (pc /= "idle" /\ runnerCalls >= 1 /\ runnerExit = 0)]_vars
    /\ [](runnerExit /= 0 => markerFile = marker0 /\ markerWrites = 0)

\* C1 witness: the marker was written, after a run that exited with 0.
C1_Witness ==
    /\ markerWrites = 1
    /\ runnerExit = 0
    /\ markerFile /= marker0

\* C2 as claimed: a runner failure ends the invocation with a non-zero exit,
\* the runner was started once, the marker is what it was before the
\* invocation, and the next invocation at the same revision decides
\* ShouldRun again.
C2_Original ==
    /\ outcome = "runner_failed"
        => exit_code /= 0 /\ exit_code /= NotExited /\ pc = "idle"
           /\ runnerCalls = 1 /\ markerFile = marker0
    /\ (prevFailedAt /= None /\ decision /= "none"
        /\ current_commit = prevFailedAt)
        => decision = "run"

\* C2 as amended: as claimed, except that the next invocation at the same
\* revision decides ShouldRun again unless the failed invocation decided
\* ShouldRun because its path-change lookup failed and the lookup succeeds
\* in the next invocation.
C2_RunnerFailureKeepsMarker ==
    /\ outcome = "runner_failed"
        => exit_code /= 0 /\ exit_code /= NotExited /\ pc = "idle"
           /\ runnerCalls = 1 /\ markerFile = marker0
    /\ (prevFailedAt /= None /\ decision /= "none"
        /\ current_commit = prevFailedAt
        /\ ~(prevLookup = "failed" /\ lookup = "ok"))
        => decision = "run"

\* C2 witness: the invocation after a runner failure, at the same revision,
\* has decided to run again, the marker being a commit's hash.
C2_Witness ==
    /\ prevFailedAt /= None
    /\ current_commit = prevFailedAt
    /\ decision = "run"
    /\ marker0.exists

\* C3: when no marker file is present the gate decides ShouldRun, whatever
\* the current revision, the history and the command line are.
C3_NoMarkerAlwaysRuns ==
    (decision /= "none" /\ ~marker0.exists) => decision = "run"

\* C3 witness: a decision without a marker file, with a filter given and a
\* second commit as the current revision.
C3_Witness ==
    /\ decision = "run"
    /\ ~marker0.exists
    /\ Len(argv) > 1
    /\ current_commit = Hash(2)

\* C4: when the marker equals the current revision the gate decides
\* ShouldSkip and git diff is not called in that invocation.
C4_EqualMarkerSkipsWithoutLookup ==
    (decision /= "none" /\ marker0.exists /\ marker0.content = current_commit)
        => decision = "skip" /\ lookupCalls = 0 /\ lookup = "none"

\* C4 witness: an invocation that found the marker at the current revision
\* and has ended.
C4_Witness ==
    /\ decision = "skip"
    /\ marker0.exists
    /\ marker0.content = current_commit
    /\ outcome = "skipped"

\* C5: with a marker that differs from the current revision and a lookup
\* that succeeded, the gate decides ShouldRun exactly if a path outside
\* scripts/ differs between the marker revision and the current revision.
C5_RunIffRelevantChange ==
    (decision /= "none" /\ marker0.exists /\ last_commit /= current_commit
     /\ lookup = "ok")
        => /\ decision \in {"run", "skip"}
           /\ decision = "run" <=> RelevantChange(last_commit, current_commit)

\* C5 witness: only scripts/ changed between the marker revision and the
\* current one, and the gate skipped.
C5_Witness ==
    /\ decision = "skip"
    /\ marker0.exists
    /\ last_commit /= current_commit
    /\ lookup = "ok"
    /\ trees[CommitOf(last_commit)] /= trees[CommitOf(current_commit)]

\* C6: when the path-change lookup fails the gate does not end with an
\* error: it decides ShouldRun and goes on to the benchmark run.
C6_LookupFailureFailsOpen ==
    lookup = "failed"
        => /\ decision = "run"
           /\ should_run
           /\ outcome /= "skipped"
           /\ pc = "dispatch"
                => exit_code = NotExited /\ ENABLED RunBenchmarks
                   /\ ~ENABLED SkipBenchmarks

\* C6 witness: the marker revision is not in the history, the lookup
\* failed and the runner was started.
C6_Witness ==
    /\ lookup = "failed"
    /\ marker0.exists
    /\ last_commit /= current_commit
    /\ runnerCalls = 1

\* C7: whenever the gate decides ShouldSkip the runner is not started and
\* the marker file is not written: it keeps the value it had.
C7_SkipHasNoSideEffects ==
    decision = "skip"
        => runnerCalls = 0 /\ markerWrites = 0 /\ markerFile = marker0
           /\ runnerExit = NotExited

\* C7 witness: a skip because nothing relevant changed, ended, the marker
\* still at the older revision.
C7_Witness ==
    /\ decision = "skip"
    /\ outcome = "skipped"
    /\ lookup = "ok"
    /\ markerFile.content /= current_commit

\* C8: after every invocation that decided ShouldRun, whose runner exited 0
\* and that ran to its end, the marker file holds exactly the revision read
\* at the start of the invocation: the hash, no whitespace around it.
C8_MarkerIsCurrentAfterSuccess ==
    (pc = "idle" /\ decision = "run" /\ runnerExit = 0
     /\ outcome /= "interrupted")
        => /\ outcome = "ran"
           /\ exit_code = 0
           /\ markerFile = [exists |-> TRUE, content |-> current_commit]
           /\ \E n \in Commits : current_commit = Hash(n)

\* C8 witness: a successful run that replaced another revision's marker.
C8_Witness ==
    /\ outcome = "ran"
    /\ marker0.exists
    /\ marker0.content /= current_commit
    /\ markerFile.content = current_commit

---------------------------------------------------------------------------
\* The comparator's claims.

\* the identities of exactly one of the two result sets
OnlyInOld == DOMAIN old_data \ DOMAIN new_data

OnlyInNew == DOMAIN new_data \ DOMAIN old_data

InBoth == DOMAIN old_data \cap DOMAIN new_data

\* the rows of the written report that belong to identity k
RowsOf(k) == {i \in 1..Len(output_file.rows) : output_file.rows[i].key = k}

\* C9: in the report, every identity present in exactly one of the two
\* result sets has a row with status Added ("New", only in current) or
\* Removed (only in baseline) and an empty percent column, whatever the
\* entry's mean is, a recorded mean of 0 included.
C9_Claimed ==
    output_file.exists
        => /\ \A k \in OnlyInNew :
                /\ RowsOf(k) /= {}
                /\ \A i \in RowsOf(k) :
                    /\ output_file.rows[i].status = "New"
                    /\ output_file.rows[i].diff_str = <<>>
           /\ \A k \in OnlyInOld :
                /\ RowsOf(k) /= {}
                /\ \A i \in RowsOf(k) :
                    /\ output_file.rows[i].status = "Removed"
                    /\ output_file.rows[i].diff_str = <<>>

\* C10: in the report, every identity present in both result sets whose
\* baseline mean is 0 has a row with status Unchanged ("Same") and percent
\* "0%", whatever the current mean is.
C10_Claimed ==
    output_file.exists
        => \A k \in InBoth :
            (old_data[k].Statistics = "mean" /\ old_data[k].Mean = 0
             /\ new_data[k].Statistics = "mean")
                => /\ RowsOf(k) /= {}
                   /\ \A i \in RowsOf(k) :
                        /\ output_file.rows[i].status = "Same"
                        /\ output_file.rows[i].diff_str = <<"0", "%">>

\* C11: in the report, every identity present in both result sets with a
\* baseline mean m /= 0 has a row whose percent is (current - m) / m * 100
\* (as the report prints it: signed, one decimal), whatever the current
\* mean is, a current mean of 0 included.
C11_Claimed ==
    output_file.exists
        => \A k \in InBoth :
            (old_data[k].Statistics = "mean" /\ old_data[k].Mean /= 0
             /\ new_data[k].Statistics = "mean")
                => /\ RowsOf(k) /= {}
                   /\ \A i \in RowsOf(k) :
                        output_file.rows[i].diff_str
                            = SignedFixed1((new_data[k].Mean - old_data[k].Mean)
                                             * 100, old_data[k].Mean)

\* the relative change new against old is above / below pct percent
ChangeAbove(old, new, pct) == (new - old) * 100 > pct * old

ChangeBelow(old, new, pct) == (new - old) * 100 < pct * old

\* C12: a row that carries a relative change is Slower when the change is
\* strictly greater than +5.0 percent, Faster when it is strictly less than
\* -5.0 percent, and Unchanged ("Same") for every change in [-5.0, +5.0],
\* exactly +5.0 and exactly -5.0 included.
C12_ThresholdsAreStrict ==
    (fn_done /\ fn_result.diff_str /= <<>>)
        => /\ fn_args[1] > 0
           /\ fn_result.status
                = IF ChangeAbove(fn_args[1], fn_args[2], 5) THEN "Slower"
                  ELSE IF ChangeBelow(fn_args[1], fn_args[2], -5) THEN "Faster"
                  ELSE "Same"

\* C12 witness: the row of baseline 20 and current 21, a change of exactly
\* +5.0 percent, is Unchanged.
C12_Witness ==
    /\ fn_done
    /\ fn_args = <<20, 21>>
    /\ fn_result.diff_str = <<"+", "5", ".", "0", "%">>
    /\ fn_result.status = "Same"

\* a document has zero entries: it is missing, has no 'Benchmarks' or an
\* empty list
ZeroEntries(doc) == doc.kind /= "benchmarks" \/ doc.Benchmarks = <<>>

\* C13: a comparison in which one document, or both, have zero entries
\* ends without an error and with a report written; the document without
\* entries adds no rows to it, so with both empty it has no rows.
C13_Claimed ==
    (cpc = "done" /\ (ZeroEntries(old_file) \/ ZeroEntries(new_file)))
        => /\ raised = ""
           /\ output_file.exists
           /\ (ZeroEntries(old_file) /\ ZeroEntries(new_file))
                => output_file.rows = <<>>

\* the entry of k in data is there and has no mean: no Statistics, or a
\* Statistics object without 'Mean'
LacksMean(data, k) ==
    k \in DOMAIN data /\ data[k].Statistics \in {"absent", "no_mean"}

HasMean(data, k) ==
    k \in DOMAIN data /\ data[k].Statistics = "mean"

\* C14: an entry that lacks a mean on one side, the other side having one,
\* never makes the comparison fail: the comparison ends with the report
\* written and the identity's row is Added ("New") or Removed.
C14_Claimed ==
    cpc = "done"
        => \A k \in DOMAIN old_data \cup DOMAIN new_data :
            ((LacksMean(old_data, k) /\ HasMean(new_data, k))
             \/ (HasMean(old_data, k) /\ LacksMean(new_data, k)))
                => /\ raised = ""
                   /\ output_file.exists
                   /\ RowsOf(k) /= {}
                   /\ \A i \in RowsOf(k) :
                        output_file.rows[i].status \in {"New", "Removed"}

\* a document load_benchmarks cannot read as results: it is missing or
\* unreadable, is not an object with 'Benchmarks', or holds a malformed
\* element
Faulty(doc) ==
    \/ doc.kind /= "benchmarks"
    \/ \E i \in 1..Len(doc.Benchmarks) : doc.Benchmarks[i] = Malformed

\* the identities compare's loop has visited or has still to visit
LoopKeys ==
    {lines[i].key : i \in 1..Len(lines)}
        \cup {sorted_keys[i] : i \in 1..Len(sorted_keys)}

\* C15: load_benchmarks never raises: a faulty document is loaded as the
\* empty result set, the entries before the fault dropped, and compare goes
\* on: with entries in the other document it reaches its loop, over the
\* identities of that document.
C15_FaultyDocumentLoadsEmpty ==
    /\ (cpc \notin {"load_old"} /\ Faulty(old_file)) => DOMAIN old_data = {}
    /\ (cpc \notin {"load_old", "load_new"} /\ Faulty(new_file))
        => DOMAIN new_data = {}
    /\ cpc \in {"load_old", "load_new", "check"} => raised = ""
    /\ (cpc = "check" /\ (Faulty(old_file) \/ Faulty(new_file))
        /\ DOMAIN old_data \cup DOMAIN new_data /= {})
        => ENABLED SortKeys /\ ~ENABLED NoData
    /\ cpc = "loop" => LoopKeys = DOMAIN old_data \cup DOMAIN new_data

\* C15 witness: the baseline document holds an entry and then a malformed
\* element; the report has the row of the current document's entry.
C15_Witness ==
    /\ Len(old_file.Benchmarks) = 2
    /\ Faulty(old_file)
    /\ DOMAIN old_data = {}
    /\ output_file.exists
    /\ Len(output_file.rows) = 1

\* C16: the report has exactly one row for each identity of the union of
\* the baseline and current key sets, and no other row.
C16_OneRowPerIdentity ==
    output_file.exists
        => /\ \A k \in DOMAIN old_data \cup DOMAIN new_data :
                Cardinality(RowsOf(k)) = 1
           /\ \A i \in 1..Len(output_file.rows) :
                output_file.rows[i].key \in DOMAIN old_data \cup DOMAIN new_data
           /\ Len(output_file.rows)
                = Cardinality(DOMAIN old_data \cup DOMAIN new_data)

\* C16 witness: a report on two documents that hold the same identity.
C16_Witness ==
    /\ output_file.exists
    /\ InBoth /= {}
    /\ Len(output_file.rows) = 1

\* C17 as claimed: the rows of the report are in the order of their
\* display_name.
C17_Original ==
    output_file.exists
        => \A i, j \in 1..Len(output_file.rows) :
            i < j => ~StrLess(output_file.rows[j].display_name,
                              output_file.rows[i].display_name)

\* C17 as amended: the rows of the report are in the ascending order of
\* their identity, the full key.
C17_SortedByIdentity ==
    output_file.exists
        => \A i, j \in 1..Len(output_file.rows) :
            i < j => StrLess(output_file.rows[i].key, output_file.rows[j].key)

\* C17 witness: a report of two rows whose display names are in the other
\* order than their keys.
C17_Witness ==
    /\ output_file.exists
    /\ Len(output_file.rows) = 2
    /\ StrLess(output_file.rows[2].display_name,
               output_file.rows[1].display_name)

\* the unit format_time printed: the last word of its result
UnitOf(text) == text[Len(text)]

\* C18 as claimed: format_time prints nanoseconds below 1,000, microseconds
\* from 1,000 and below 1,000,000, and milliseconds for every value of
\* 1,000,000 or more.
C18_Original ==
    fn_done
        => UnitOf(fn_result)
            = IF fn_args[1] < 1000 THEN "ns"
              ELSE IF fn_args[1] < 1000000 THEN "us"
              ELSE "ms"

\* C18 as amended: format_time has four units: nanoseconds below 1,000,
\* microseconds from 1,000 and below 1,000,000, milliseconds from 1,000,000
\* and below 1,000,000,000, and seconds from 1,000,000,000 on; the number is
\* the duration in that unit with two decimals.
C18_FourUnits ==
    /\ fn_done
        => UnitOf(fn_result)
            = IF fn_args[1] < 1000 THEN "ns"
              ELSE IF fn_args[1] < 1000000 THEN "us"
              ELSE IF fn_args[1] < 1000000000 THEN "ms"
              ELSE "s"
    /\ (fn_done /\ fn_args[1] = 999)
        => fn_result = <<"999", ".", "0", "0", " ", "ns">>
    /\ (fn_done /\ fn_args[1] = 1000)
        => fn_result = <<"1", ".", "0", "0", " ", "us">>
    /\ (fn_done /\ fn_args[1] = 1000000)
        => fn_result = <<"1", ".", "0", "0", " ", "ms">>
    /\ (fn_done /\ fn_args[1] = 1000000000)
        => fn_result = <<"1", ".", "0", "0", " ", "s">>

\* C18 witness: a duration of a second or more was formatted, in seconds.
C18_Witness ==
    /\ fn_done
    /\ fn_args[1] >= 1000000000
    /\ UnitOf(fn_result) = "s"

\* C19: at every moment the marker file is absent, no invocation having
\* ended with a successful run, or holds the revision that was current in
\* the last invocation that ended with a successful run; an invocation that
\* skipped, failed or was killed leaves the marker as it found it.
C19_MarkerIsLastSuccess ==
    /\ markerFile = IF lastSuccess = None
                    THEN [exists |-> FALSE, content |-> <<>>]
                    ELSE [exists |-> TRUE, content |-> lastSuccess]
    /\ lastSuccess /= None => \E n \in Commits : lastSuccess = Hash(n)
    /\ outcome \in {"skipped", "runner_failed", "crashed", "interrupted"}
        => markerFile = marker0 /\ markerWrites = 0
    /\ (pc /= "idle" /\ pc /= "update") => markerFile = marker0

\* C19 witness: after a successful run at one revision, an invocation at a
\* newer revision failed in its runner and the marker is still the older
\* revision.
C19_Witness ==
    /\ lastSuccess /= None
    /\ outcome = "runner_failed"
    /\ current_commit /= lastSuccess
    /\ markerFile.content = lastSuccess

\* the text holds nothing but whitespace, or nothing at all
Blank(text) == \A i \in 1..Len(text) : IsSpace(text[i])

\* C20: an invocation that finds a marker file that is empty or holds only
\* whitespace decides ShouldRun, as without a marker file: the marker is not
\* compared with the current revision and git diff is not called.
C20_BlankMarkerIsNoMarker ==
    /\ (pc \notin {"idle", "get_current", "get_last"} /\ marker0.exists
        /\ Blank(marker0.content))
        => last_commit = <<>>
    /\ (decision /= "none" /\ marker0.exists /\ Blank(marker0.content))
        => /\ decision = "run"
           /\ should_run
           /\ lookupCalls = 0
           /\ lookup = "none"
           /\ ENABLED RunBenchmarks \/ pc /= "dispatch"

\* C20 witness: the marker held a blank and a newline, and the invocation
\* decided to run and started the runner.
C20_Witness ==
    /\ marker0.exists
    /\ marker0.content = <<" ", "\n">>
    /\ decision = "run"
    /\ runnerCalls = 1
    /\ lookupCalls = 0

===========================================================================
